---- MODULE Spec2Model ----
(***************************************************************************)
(* Model of the volume client's source and source-output reconcilers       *)
(* (src/clients/volume/source.rs, src/clients/volume/source_output.rs).    *)
(*                                                                         *)
(* The audio server delivers (operation, index) notifications serially to  *)
(* on_event.  New and Changed issue an asynchronous info fetch whose       *)
(* completion callback (add / update) runs later, in any order relative to *)
(* later notifications; Removed runs remove at once.  Registries are       *)
(* Vec<Source> / Vec<SourceOutput> behind a mutex, the default source name *)
(* is an Option<String> behind its own mutex, and every committed change   *)
(* is published on one broadcast channel.                                  *)
(***************************************************************************)
EXTENDS Integers, Sequences, FiniteSets, Bags, TLC

\* ------------------------------------------------------------------ bounds
MaxFetch  == 2   \* info fetches in flight at one time
MaxEvents == 3   \* events published on the channel in one run
Capacity  == 1   \* events a consumer's buffer holds

\* ------------------------------------------------------------ value domains
Indices      == {3, 4}
NoName       == <<>>                       \* Option::None
Some(x)      == <<x>>                      \* Option::Some(x)
DefaultNames == {NoName, Some("alsa_input.0"), Some("alsa_input.1")}
SourceStates == {"Running", "Suspended"}
Volumes      == {"vol"}
Consumers    == {"c1"}
CommandNames   == {"alsa_input.0"}                  \* names a caller passes
CommandIndices == {3}                               \* indices a caller passes
Percents       == {50}                              \* volume a caller asks for
UiThreads    == {"ui1", "ui2"}                     \* callers of the commands
Threads      == {"reconciler", "tracker"} \cup UiThreads
Mutexes      == {"connection", "context", "sources", "source_outputs",
                 "default_source"}
Free         == "-"                                \* no thread holds the mutex

\* The name the server gives the source at index i: a device keeps its name,
\* and a source may have none
SourceName(i) == IF i = 3 THEN Some("alsa_input.0") ELSE NoName

\* SourceInfo values the server can return for index i
SourceInfos(i) ==
  [index : {i}, name : {SourceName(i)}, description : {Some("Mic")},
   mute : BOOLEAN, volume : Volumes, state : SourceStates]

\* SourceOutputInfo values the server can return for index i
SourceOutputInfos(i) ==
  {[index |-> i, name |-> Some("rec"), mute |-> m, volume |-> v,
    has_volume |-> TRUE, volume_writable |-> ~m] : m \in BOOLEAN, v \in Volumes}

\* ListResult as the completion callbacks see it: End (no item) or Item(info)
End        == <<>>
Item(info) == <<info>>

VARIABLES
  sources,         \* Vec<Source>: the source registry
  source_outputs,  \* Vec<SourceOutput>: the source-output registry
  default_source,  \* Option<String>: the Default-Device Tracker
  tx,              \* every event published on the broadcast channel, in order
  rx,              \* per consumer: whether it is subscribed, and its unread events
  fetches,         \* bag of info fetches in flight
  live,            \* per kind, the indices live on the audio server
  upd,             \* source update between its registry block and its send
  last,            \* the most recent step on the shared data: what ran, what it logged
  connection,      \* ConnectionState behind Client::connection
  cmd,             \* Option: the command sent last on the current session
  held,            \* per mutex, the thread that holds it
  pc               \* per thread, where it is in the operation it runs

vars == <<sources, source_outputs, default_source, tx, rx, fetches, live, upd, last,
          connection, cmd, held, pc>>

\* What the reconcilers, the tracker's writer and the consumers leave alone
client_vars == <<connection, cmd, held, pc>>

\* ------------------------------------------------------------- conversions
unwrap_or_default(o) == IF o = NoName THEN "" ELSE o[1]

\* impl From<&SourceInfo> for Source
SourceFrom(value) ==
  [index       |-> value.index,
   name        |-> unwrap_or_default(value.name),
   description |-> unwrap_or_default(value.description),
   muted       |-> value.mute,
   volume      |-> value.volume,
   active      |-> (value.state = "Running")]

\* impl From<&SourceOutputInfo> for SourceOutput
SourceOutputFrom(value) ==
  [index          |-> value.index,
   name           |-> unwrap_or_default(value.name),
   muted          |-> value.mute,
   volume         |-> value.volume,
   can_set_volume |-> (value.has_volume /\ value.volume_writable)]

\* ------------------------------------------------------------------ events
AddSource(s)       == [type |-> "AddSource", source |-> s]
UpdateSource(s)    == [type |-> "UpdateSource", source |-> s]
RemoveSource(name) == [type |-> "RemoveSource", name |-> name]
AddOutput(o)       == [type |-> "AddOutput", output |-> o]
UpdateOutput(o)    == [type |-> "UpdateOutput", output |-> o]
RemoveOutput(idx)  == [type |-> "RemoveOutput", index |-> idx]

\* ------------------------------------------------------- broadcast channel
Closed == [open |-> FALSE, buf |-> <<>>]

\* The channel as the reconciler sees it: the published events and the buffers
Chan == [tx |-> tx, rx |-> rx]

\* tx.send_expect(event): hands the event to every open buffer with room and
\* returns; a closed or full buffer misses it
send_expect(chan, event) ==
  [tx |-> Append(chan.tx, event),
   rx |-> [c \in Consumers |->
             IF chan.rx[c].open /\ Len(chan.rx[c].buf) < Capacity
               THEN [chan.rx[c] EXCEPT !.buf = Append(@, event)]
               ELSE chan.rx[c]]]

\* ----------------------------------------------------------- Vec helpers
\* iter().position(|s| s.index == index): the first match, 0 for None
position(vec, index) ==
  IF \E p \in 1..Len(vec) : vec[p].index = index
    THEN CHOOSE p \in 1..Len(vec) :
           /\ vec[p].index = index
           /\ \A q \in 1..(p - 1) : vec[q].index # index
    ELSE 0

\* Vec::remove(pos)
vec_remove(vec, pos) == SubSeq(vec, 1, pos - 1) \o SubSeq(vec, pos + 1, Len(vec))

\* ------------------------------------------------------ source reconciler
\* What a reconciler function leaves behind: the registry, the channel, and
\* whether it logged with error!
Outcome(reg, chan, err) == [reg |-> reg, chan |-> chan, err |-> err]

\* source_add that derives active from the default source as update does
source_add_recompute(info, srcs, chan) ==
  IF info = End
    THEN Outcome(srcs, chan, FALSE)
    ELSE LET s == SourceFrom(info[1])
             t == IF ~s.active /\ default_source # NoName
                    THEN [s EXCEPT !.active = (s.name = default_source[1])]
                    ELSE s
         IN  Outcome(Append(srcs, t), send_expect(chan, AddSource(t)), FALSE)

\* source.rs add
source_add(info, srcs, chan) ==
  IF info = End
    THEN Outcome(srcs, chan, FALSE)
    ELSE Outcome(Append(srcs, SourceFrom(info[1])),
                 send_expect(chan, AddSource(SourceFrom(info[1]))),
                 FALSE)

\* source_update_local with an untracked index inserted instead of refused
source_update_local_upsert(info, srcs, dflt) ==
  LET pos == position(srcs, info.index)
      s   == SourceFrom(info)
      rec == IF ~s.active /\ dflt # NoName
               THEN [s EXCEPT !.active = (s.name = dflt[1])]
               ELSE s
  IN  IF pos = 0
        THEN [reg |-> Append(srcs, rec), found |-> TRUE, err |-> FALSE]
        ELSE [reg |-> [srcs EXCEPT ![pos] = rec], found |-> TRUE, err |-> FALSE]

\* source_update_local with active recomputed whatever the server reported
source_update_local_unguarded(info, srcs, dflt) ==
  LET pos == position(srcs, info.index) IN
  IF pos = 0
    THEN [reg |-> srcs, found |-> FALSE, err |-> TRUE]
    ELSE LET s == SourceFrom(info) IN
         [reg   |-> [srcs EXCEPT ![pos] =
                       IF dflt # NoName
                         THEN [s EXCEPT !.active = (s.name = dflt[1])]
                         ELSE s],
          found |-> TRUE,
          err   |-> FALSE]

\* source.rs update, the block that holds the registry lock (lines 152-167):
\* the default source is read once, under the registry lock
source_update_local(info, srcs, dflt) ==
  LET pos == position(srcs, info.index) IN
  IF pos = 0
    THEN [reg |-> srcs, found |-> FALSE, err |-> TRUE]
    ELSE LET s == SourceFrom(info) IN
         [reg   |-> [srcs EXCEPT ![pos] =
                       IF ~s.active /\ dflt # NoName
                         THEN [s EXCEPT !.active = (s.name = dflt[1])]
                         ELSE s],
          found |-> TRUE,
          err   |-> FALSE]

\* source.rs update, the broadcast copy (lines 169-178): the default source is
\* read a second time, after the registry lock was released
source_update_broadcast(info, dflt, chan) ==
  LET s == SourceFrom(info) IN
  send_expect(chan, UpdateSource(
    IF ~s.active /\ dflt # NoName
      THEN [s EXCEPT !.active = (s.name = dflt[1])]
      ELSE s))

\* source_remove that publishes the removed record's description for its name
source_remove_description(index, srcs, chan) ==
  LET pos == position(srcs, index) IN
  IF pos # 0
    THEN Outcome(vec_remove(srcs, pos),
                 send_expect(chan, RemoveSource(srcs[pos].description)),
                 FALSE)
    ELSE Outcome(srcs, chan, FALSE)

\* source_remove that drops every record with the index (Vec::retain)
source_remove_retain(index, srcs, chan) ==
  LET pos == position(srcs, index) IN
  IF pos # 0
    THEN Outcome(SelectSeq(srcs, LAMBDA s : s.index # index),
                 send_expect(chan, RemoveSource(srcs[pos].name)),
                 FALSE)
    ELSE Outcome(srcs, chan, FALSE)

\* source.rs remove
source_remove(index, srcs, chan) ==
  LET pos == position(srcs, index) IN
  IF pos # 0
    THEN Outcome(vec_remove(srcs, pos),
                 send_expect(chan, RemoveSource(srcs[pos].name)),
                 FALSE)
    ELSE Outcome(srcs, chan, FALSE)

\* ----------------------------------------------- source-output reconciler
\* output_add that logs an error when the fetch ends without an item
output_add_end_logged(info, outs, chan) ==
  IF info = End
    THEN Outcome(outs, chan, TRUE)
    ELSE Outcome(Append(outs, SourceOutputFrom(info[1])),
                 send_expect(chan, AddOutput(SourceOutputFrom(info[1]))),
                 FALSE)

\* source_output.rs add
output_add(info, outs, chan) ==
  IF info = End
    THEN Outcome(outs, chan, FALSE)
    ELSE Outcome(Append(outs, SourceOutputFrom(info[1])),
                 send_expect(chan, AddOutput(SourceOutputFrom(info[1]))),
                 FALSE)

\* output_update that publishes the event before it looks the index up
output_update_send_first(info, outs, chan) ==
  IF info = End
    THEN Outcome(outs, chan, FALSE)
    ELSE LET output_info == SourceOutputFrom(info[1])
             pos         == position(outs, output_info.index)
         IN  IF pos # 0
               THEN Outcome([outs EXCEPT ![pos] = output_info],
                            send_expect(chan, UpdateOutput(output_info)),
                            FALSE)
               ELSE Outcome(outs, send_expect(chan, UpdateOutput(output_info)), TRUE)

\* source_output.rs update
output_update(info, outs, chan) ==
  IF info = End
    THEN Outcome(outs, chan, FALSE)
    ELSE LET output_info == SourceOutputFrom(info[1])
             pos         == position(outs, output_info.index)
         IN  IF pos # 0
               THEN Outcome([outs EXCEPT ![pos] = output_info],
                            send_expect(chan, UpdateOutput(output_info)),
                            FALSE)
               ELSE Outcome(outs, chan, TRUE)

\* output_remove that takes the first record when the index is not found
output_remove_first(index, outs, chan) ==
  LET found == position(outs, index)
      pos   == IF found = 0 /\ Len(outs) > 0 THEN 1 ELSE found
  IN  IF pos # 0
        THEN Outcome(vec_remove(outs, pos),
                     send_expect(chan, RemoveOutput(outs[pos].index)),
                     FALSE)
        ELSE Outcome(outs, chan, FALSE)

\* source_output.rs remove
output_remove(index, outs, chan) ==
  LET pos == position(outs, index) IN
  IF pos # 0
    THEN Outcome(vec_remove(outs, pos),
                 send_expect(chan, RemoveOutput(outs[pos].index)),
                 FALSE)
    ELSE Outcome(outs, chan, FALSE)

\* ------------------------------------------------------------ state machine
Kinds == {"source", "output"}

Idle == <<>>                               \* no source update is between its two halves

Step(kind, op, i, res, hit, err) ==
  [kind |-> kind, op |-> op, i |-> i, res |-> res, hit |-> hit, err |-> err]

\* What `last` holds after a step of the tracker's writer or of a consumer
Other == Step("-", "other", 0, "-", FALSE, FALSE)

Fetch(kind, op, i) == [kind |-> kind, op |-> op, i |-> i]

\* Room for one more event in the run, counting what is already under way
Room ==
  Len(tx) + BagCardinality(fetches) + (IF upd # Idle THEN 1 ELSE 0) < MaxEvents

CanFetch == Room /\ BagCardinality(fetches) < MaxFetch

Init ==
  /\ sources = <<>>
  /\ source_outputs = <<>>
  /\ default_source = NoName
  /\ tx = <<>>
  /\ rx = [c \in Consumers |-> Closed]
  /\ fetches = EmptyBag
  /\ live = [k \in Kinds |-> {}]
  /\ upd = Idle
  /\ last = Step("-", "init", 0, "-", FALSE, FALSE)
  /\ connection = "Connected"
  /\ cmd = <<>>
  /\ held = [m \in Mutexes |-> Free]
  /\ pc = [t \in Threads |-> "idle"]

\* source.rs on_event, Operation::New: the server created source i
source_on_event_new(i) ==
  /\ upd = Idle
  /\ i \notin live["source"]
  /\ CanFetch
  /\ live' = [live EXCEPT !["source"] = @ \cup {i}]
  /\ fetches' = fetches (+) SetToBag({Fetch("source", "New", i)})
  /\ last' = Step("source", "New", i, "-", position(sources, i) # 0, FALSE)
  /\ UNCHANGED <<sources, source_outputs, default_source, tx, rx, upd>>
  /\ UNCHANGED client_vars

\* source.rs on_event, Operation::Changed: the server changed source i
source_on_event_changed(i) ==
  /\ upd = Idle
  /\ i \in live["source"]
  /\ CanFetch
  /\ fetches' = fetches (+) SetToBag({Fetch("source", "Changed", i)})
  /\ last' = Step("source", "Changed", i, "-", position(sources, i) # 0, FALSE)
  /\ UNCHANGED <<sources, source_outputs, default_source, tx, rx, live, upd>>
  /\ UNCHANGED client_vars

\* source.rs on_event, Operation::Removed: the server removed source i
source_on_event_removed(i) ==
  /\ upd = Idle
  /\ i \in live["source"]
  /\ Room
  /\ live' = [live EXCEPT !["source"] = @ \ {i}]
  /\ LET r == source_remove(i, sources, Chan) IN
       /\ sources' = r.reg
       /\ tx' = r.chan.tx
       /\ rx' = r.chan.rx
       /\ last' = Step("source", "remove", i, "-", position(sources, i) # 0, r.err)
  /\ UNCHANGED <<source_outputs, default_source, fetches, upd>>
  /\ UNCHANGED client_vars

\* Fetch f is in flight, issued by on_event for this kind and operation
Pending(f, kind, op) ==
  /\ f \in BagToSet(fetches)
  /\ f.kind = kind
  /\ f.op = op

\* Which arm of ListResult the completion callback was called with
Res(info) == IF info = End THEN "end" ELSE "item"

\* What the completion callback is called with: an item if the index is live
\* on the server when the fetch completes, no item otherwise
SourceResults(f) ==
  IF f.i \in live["source"] THEN {Item(x) : x \in SourceInfos(f.i)} ELSE {End}

OutputResults(f) ==
  IF f.i \in live["output"] THEN {Item(x) : x \in SourceOutputInfos(f.i)} ELSE {End}

\* The completion of a New fetch runs add (source.rs line 106)
source_add_done(f, info) ==
  /\ upd = Idle
  /\ Pending(f, "source", "New")
  /\ info \in SourceResults(f)
  /\ fetches' = fetches (-) SetToBag({f})
  /\ LET r == source_add(info, sources, Chan) IN
       /\ sources' = r.reg
       /\ tx' = r.chan.tx
       /\ rx' = r.chan.rx
       /\ last' = Step("source", "add", f.i, Res(info), position(sources, f.i) # 0, r.err)
  /\ UNCHANGED <<source_outputs, default_source, live, upd>>
  /\ UNCHANGED client_vars

\* The completion of a Changed fetch runs update (source.rs line 116), up to
\* the end of the block that holds the registry lock
source_update_begin(f, info) ==
  /\ upd = Idle
  /\ Pending(f, "source", "Changed")
  /\ info \in SourceResults(f)
  /\ fetches' = fetches (-) SetToBag({f})
  /\ IF info = End
       THEN /\ last' = Step("source", "update", f.i, Res(info), position(sources, f.i) # 0, FALSE)
            /\ UNCHANGED <<sources, upd>>
       ELSE LET r == source_update_local(info[1], sources, default_source) IN
              /\ sources' = r.reg
              /\ upd' = IF r.found THEN info ELSE Idle
              /\ last' = Step("source", "update", f.i, Res(info), r.found, r.err)
  /\ UNCHANGED <<source_outputs, default_source, tx, rx, live>>
  /\ UNCHANGED client_vars

\* source_update_send on a channel that makes the sender wait for room in
\* every subscribed consumer's buffer
source_update_send_backpressure ==
  /\ upd # Idle
  /\ \A c \in Consumers : rx[c].open => Len(rx[c].buf) < Capacity
  /\ LET chan == source_update_broadcast(upd[1], default_source, Chan) IN
       /\ tx' = chan.tx
       /\ rx' = chan.rx
  /\ upd' = Idle
  /\ last' = Step("source", "update_send", upd[1].index, "item", TRUE, FALSE)
  /\ UNCHANGED <<sources, source_outputs, default_source, fetches, live>>
  /\ UNCHANGED client_vars

\* update's second half: the broadcast copy and the send
source_update_send ==
  /\ upd # Idle
  /\ LET chan == source_update_broadcast(upd[1], default_source, Chan) IN
       /\ tx' = chan.tx
       /\ rx' = chan.rx
  /\ upd' = Idle
  /\ last' = Step("source", "update_send", upd[1].index, "item", TRUE, FALSE)
  /\ UNCHANGED <<sources, source_outputs, default_source, fetches, live>>
  /\ UNCHANGED client_vars

\* source_output.rs on_event, Operation::New
output_on_event_new(i) ==
  /\ upd = Idle
  /\ i \notin live["output"]
  /\ CanFetch
  /\ live' = [live EXCEPT !["output"] = @ \cup {i}]
  /\ fetches' = fetches (+) SetToBag({Fetch("output", "New", i)})
  /\ last' = Step("output", "New", i, "-", position(source_outputs, i) # 0, FALSE)
  /\ UNCHANGED <<sources, source_outputs, default_source, tx, rx, upd>>
  /\ UNCHANGED client_vars

\* source_output.rs on_event, Operation::Changed
output_on_event_changed(i) ==
  /\ upd = Idle
  /\ i \in live["output"]
  /\ CanFetch
  /\ fetches' = fetches (+) SetToBag({Fetch("output", "Changed", i)})
  /\ last' = Step("output", "Changed", i, "-", position(source_outputs, i) # 0, FALSE)
  /\ UNCHANGED <<sources, source_outputs, default_source, tx, rx, live, upd>>
  /\ UNCHANGED client_vars

\* source_output.rs on_event, Operation::Removed
output_on_event_removed(i) ==
  /\ upd = Idle
  /\ i \in live["output"]
  /\ Room
  /\ live' = [live EXCEPT !["output"] = @ \ {i}]
  /\ LET r == output_remove(i, source_outputs, Chan) IN
       /\ source_outputs' = r.reg
       /\ tx' = r.chan.tx
       /\ rx' = r.chan.rx
       /\ last' = Step("output", "remove", i, "-", position(source_outputs, i) # 0, r.err)
  /\ UNCHANGED <<sources, default_source, fetches, upd>>
  /\ UNCHANGED client_vars

\* The completion of a New fetch runs add (source_output.rs line 91)
output_add_done(f, info) ==
  /\ upd = Idle
  /\ Pending(f, "output", "New")
  /\ info \in OutputResults(f)
  /\ fetches' = fetches (-) SetToBag({f})
  /\ LET r == output_add(info, source_outputs, Chan) IN
       /\ source_outputs' = r.reg
       /\ tx' = r.chan.tx
       /\ rx' = r.chan.rx
       /\ last' = Step("output", "add", f.i, Res(info),
                       position(source_outputs, f.i) # 0, r.err)
  /\ UNCHANGED <<sources, default_source, live, upd>>
  /\ UNCHANGED client_vars

\* The completion of a Changed fetch runs update (source_output.rs line 100)
output_update_done(f, info) ==
  /\ upd = Idle
  /\ Pending(f, "output", "Changed")
  /\ info \in OutputResults(f)
  /\ fetches' = fetches (-) SetToBag({f})
  /\ LET r == output_update(info, source_outputs, Chan) IN
       /\ source_outputs' = r.reg
       /\ tx' = r.chan.tx
       /\ rx' = r.chan.rx
       /\ last' = Step("output", "update", f.i, Res(info),
                       position(source_outputs, f.i) # 0, r.err)
  /\ UNCHANGED <<sources, default_source, live, upd>>
  /\ UNCHANGED client_vars

\* Another thread stores a new default source name in the tracker
set_default(v) ==
  /\ v # default_source
  /\ default_source' = v
  /\ last' = Other
  /\ UNCHANGED <<sources, source_outputs, tx, rx, fetches, live, upd>>
  /\ UNCHANGED client_vars

\* A consumer subscribes: it receives events from this point on
subscribe(c) ==
  /\ ~rx[c].open
  /\ rx' = [rx EXCEPT ![c] = [open |-> TRUE, buf |-> <<>>]]
  /\ last' = Other
  /\ UNCHANGED <<sources, source_outputs, default_source, tx, fetches, live, upd>>
  /\ UNCHANGED client_vars

\* A consumer drops its receiver
unsubscribe(c) ==
  /\ rx[c].open
  /\ rx' = [rx EXCEPT ![c] = Closed]
  /\ last' = Other
  /\ UNCHANGED <<sources, source_outputs, default_source, tx, fetches, live, upd>>
  /\ UNCHANGED client_vars

\* A consumer takes the oldest unread event from its buffer
recv(c) ==
  /\ rx[c].open
  /\ rx[c].buf # <<>>
  /\ rx' = [rx EXCEPT ![c].buf = Tail(@)]
  /\ last' = Other
  /\ UNCHANGED <<sources, source_outputs, default_source, tx, fetches, live, upd>>
  /\ UNCHANGED client_vars

\* ------------------------------------------------------- control surface
\* The session with the audio server is established
connect ==
  /\ connection = "Disconnected"
  /\ connection' = "Connected"
  /\ UNCHANGED <<sources, source_outputs, default_source, tx, rx, fetches, live,
                 upd, last, cmd, held, pc>>

\* The session with the audio server is lost, and with it what was sent on it
disconnect ==
  /\ connection = "Connected"
  /\ connection' = "Disconnected"
  /\ cmd' = <<>>
  /\ UNCHANGED <<sources, source_outputs, default_source, tx, rx, fetches, live,
                 upd, last, held, pc>>

\* What the context or the introspector is asked to do
context_set_default_source(name) == [call |-> "set_default_source", name |-> name]

set_source_volume_by_name(name, volume) ==
  [call |-> "set_source_volume_by_name", name |-> name, volume |-> volume]

set_source_mute_by_name(name, mute) ==
  [call |-> "set_source_mute_by_name", name |-> name, mute |-> mute]

set_source_output_volume(index, volume) ==
  [call |-> "set_source_output_volume", index |-> index, volume |-> volume]

set_source_output_mute(index, mute) ==
  [call |-> "set_source_output_mute", index |-> index, mute |-> mute]

\* VolumeLevels::set_percent on a clone of the record's volume
set_percent(volume_levels, percent) == [levels |-> volume_levels, percent |-> percent]

\* The volume of the first record that has the name (sources) or the index
\* (source outputs); find_map over the registry
find_source_volume(srcs, name) ==
  LET hits == {p \in 1..Len(srcs) : srcs[p].name = name} IN
  IF hits = {} THEN <<>>
  ELSE Some(srcs[CHOOSE p \in hits : \A q \in hits : p <= q].volume)

find_output_volume(outs, index) ==
  IF position(outs, index) = 0 THEN <<>>
  ELSE Some(outs[position(outs, index)].volume)

\* What every command leaves alone: the registries, the tracker, the channel
\* and the reconcilers' state
Outward ==
  UNCHANGED <<sources, source_outputs, default_source, tx, rx, fetches, live,
              upd, last, connection, held, pc>>

\* source.rs Client::set_default_source
set_default_source(name) ==
  /\ cmd' = IF connection = "Connected"
              THEN Some(context_set_default_source(name))
              ELSE cmd
  /\ Outward

\* source.rs Client::set_source_volume
set_source_volume(name, volume) ==
  /\ cmd' = IF connection = "Connected"
              THEN LET volume_levels == find_source_volume(sources, name) IN
                   IF volume_levels = <<>>
                     THEN cmd
                     ELSE Some(set_source_volume_by_name(
                            name, set_percent(volume_levels[1], volume)))
              ELSE cmd
  /\ Outward

\* set_source_muted that also writes the mute flag into the registry record
set_source_muted_local(name, muted) ==
  /\ cmd' = IF connection = "Connected"
              THEN Some(set_source_mute_by_name(name, muted))
              ELSE cmd
  /\ sources' = [p \in 1..Len(sources) |->
                   IF sources[p].name = name
                     THEN [sources[p] EXCEPT !.muted = muted]
                     ELSE sources[p]]
  /\ UNCHANGED <<source_outputs, default_source, tx, rx, fetches, live, upd,
                 last, connection, held, pc>>

\* set_source_muted that is a no-op unless the registry has the name
set_source_muted_tracked(name, muted) ==
  /\ cmd' = IF connection = "Connected" /\ find_source_volume(sources, name) # <<>>
              THEN Some(set_source_mute_by_name(name, muted))
              ELSE cmd
  /\ Outward

\* source.rs Client::set_source_muted
set_source_muted(name, muted) ==
  /\ cmd' = IF connection = "Connected"
              THEN Some(set_source_mute_by_name(name, muted))
              ELSE cmd
  /\ Outward

\* source_output.rs Client::set_output_volume
set_output_volume(index, volume_percent) ==
  /\ cmd' = IF connection = "Connected"
              THEN LET volume_levels == find_output_volume(source_outputs, index) IN
                   IF volume_levels = <<>>
                     THEN cmd
                     ELSE Some(set_source_output_volume(
                            index, set_percent(volume_levels[1], volume_percent)))
              ELSE cmd
  /\ Outward

\* source_output.rs Client::set_output_muted
set_output_muted(index, muted) ==
  /\ cmd' = IF connection = "Connected"
              THEN Some(set_source_output_mute(index, muted))
              ELSE cmd
  /\ Outward

\* The source reconciler: notifications and fetch completions
SourceNext ==
  \/ \E i \in Indices : source_on_event_new(i)
  \/ \E i \in Indices : source_on_event_changed(i)
  \/ \E i \in Indices : source_on_event_removed(i)
  \/ \E f \in BagToSet(fetches) : \E info \in SourceResults(f) : source_add_done(f, info)
  \/ \E f \in BagToSet(fetches) : \E info \in SourceResults(f) : source_update_begin(f, info)
  \/ source_update_send

\* The source-output reconciler
OutputNext ==
  \/ \E i \in Indices : output_on_event_new(i)
  \/ \E i \in Indices : output_on_event_changed(i)
  \/ \E i \in Indices : output_on_event_removed(i)
  \/ \E f \in BagToSet(fetches) : \E info \in OutputResults(f) : output_add_done(f, info)
  \/ \E f \in BagToSet(fetches) : \E info \in OutputResults(f) : output_update_done(f, info)

\* The thread that writes the Default-Device Tracker
TrackerNext == \E v \in DefaultNames : set_default(v)

\* The consumers of the broadcast channel
ConsumerNext ==
  \/ \E c \in Consumers : subscribe(c)
  \/ \E c \in Consumers : unsubscribe(c)
  \/ \E c \in Consumers : recv(c)

Next == SourceNext \/ OutputNext \/ TrackerNext \/ ConsumerNext

\* A thread calls one of the commands of the control surface
Commands ==
  \/ \E name \in CommandNames : set_default_source(name)
  \/ \E name \in CommandNames : \E volume \in Percents : set_source_volume(name, volume)
  \/ \E name \in CommandNames : \E muted \in BOOLEAN : set_source_muted(name, muted)
  \/ \E i \in CommandIndices : \E volume \in Percents : set_output_volume(i, volume)
  \/ \E i \in CommandIndices : \E muted \in BOOLEAN : set_output_muted(i, muted)

\* The callers of the commands, and the session coming and going
ControlNext ==
  \/ Commands
  \/ connect
  \/ disconnect

\* Sources and source outputs appearing on the server and going away
ArrivalsNext ==
  \/ \E i \in Indices : source_on_event_new(i)
  \/ \E i \in Indices : source_on_event_removed(i)
  \/ \E f \in BagToSet(fetches) : \E info \in SourceResults(f) : source_add_done(f, info)
  \/ \E i \in Indices : output_on_event_new(i)
  \/ \E i \in Indices : output_on_event_removed(i)
  \/ \E f \in BagToSet(fetches) : \E info \in OutputResults(f) : output_add_done(f, info)

\* The reconcilers, the tracker's writer and the consumers
Spec == Init /\ [][Next]_vars

\* Both reconcilers and the tracker's writer, with no consumer subscribed
NextReconcile == SourceNext \/ OutputNext \/ TrackerNext

SpecReconcile == Init /\ [][NextReconcile]_vars

\* The source reconciler, the tracker's writer and the consumers
NextSources == SourceNext \/ TrackerNext \/ ConsumerNext

SpecSources == Init /\ [][NextSources]_vars

\* The source reconciler and the consumers, the tracker left as it starts
NextPublish == SourceNext \/ ConsumerNext

SpecPublish == Init /\ [][NextPublish]_vars

\* The callers of the commands while records come and go in both registries
NextControl == ArrivalsNext \/ ControlNext

SpecControl == Init /\ [][NextControl]_vars

\* ------------------------------------------------------------------ mutexes
\* The same functions followed mutex by mutex. Which branch a function takes
\* depends on the registry and on the fetched item; here every branch is taken,
\* and the registries, the tracker and the channel stay as they are.
LocksOnly ==
  UNCHANGED <<sources, source_outputs, default_source, tx, rx, fetches, live, upd,
              last, connection, cmd>>

\* lock!(m): thread t waits until mutex m is free and takes it
lock(t, m) ==
  /\ held[m] = Free
  /\ held' = [held EXCEPT ![m] = t]

\* The guards of the mutexes ms, all held by t, are dropped
unlock(t, ms) ==
  /\ \A m \in ms : held[m] = t
  /\ held' = [m \in Mutexes |-> IF m \in ms THEN Free ELSE held[m]]

\* Thread t moves from one place in its code to another
Goto(t, from, to) ==
  /\ pc[t] = from
  /\ pc' = [pc EXCEPT ![t] = to]

\* on_event takes the context for the introspect call (source.rs line 97,
\* source_output.rs line 83) and lets it go at the end of the statement
on_event_lock ==
  /\ Goto("reconciler", "idle", "on_event")
  /\ lock("reconciler", "context")
  /\ LocksOnly

on_event_unlock ==
  /\ Goto("reconciler", "on_event", "idle")
  /\ unlock("reconciler", {"context"})
  /\ LocksOnly

\* source.rs add: the push under the registry mutex (line 136)
source_add_lock ==
  /\ Goto("reconciler", "idle", "source_add")
  /\ lock("reconciler", "sources")
  /\ LocksOnly

source_add_unlock ==
  /\ Goto("reconciler", "source_add", "idle")
  /\ unlock("reconciler", {"sources"})
  /\ LocksOnly

\* source.rs update takes the registry mutex (line 153)
source_update_lock ==
  /\ Goto("reconciler", "idle", "source_update")
  /\ lock("reconciler", "sources")
  /\ LocksOnly

\* No record has the index: error!, return (lines 155-156)
source_update_missing ==
  /\ Goto("reconciler", "source_update", "idle")
  /\ unlock("reconciler", {"sources"})
  /\ LocksOnly

\* The record is stored and is active: the tracker is not consulted, neither
\* in the registry block (line 162) nor for the broadcast copy (line 172)
source_update_active ==
  /\ Goto("reconciler", "source_update", "idle")
  /\ unlock("reconciler", {"sources"})
  /\ LocksOnly

\* The record is stored and is not active: the tracker is needed (line 162)
source_update_inactive ==
  /\ Goto("reconciler", "source_update", "source_update_want_default")
  /\ UNCHANGED held
  /\ LocksOnly

\* lock!(default_source) inside the registry block (line 163)
source_update_lock_default ==
  /\ Goto("reconciler", "source_update_want_default", "source_update_recompute")
  /\ lock("reconciler", "default_source")
  /\ LocksOnly

\* End of the if-let and of the registry block (lines 166-167)
source_update_unlock ==
  /\ Goto("reconciler", "source_update_recompute", "source_update_copy")
  /\ unlock("reconciler", {"default_source", "sources"})
  /\ LocksOnly

\* lock!(default_source) for the broadcast copy (line 173)
source_update_copy_lock ==
  /\ Goto("reconciler", "source_update_copy", "source_update_copy_default")
  /\ lock("reconciler", "default_source")
  /\ LocksOnly

\* End of the second if-let (line 176); the send follows with no mutex held
source_update_copy_unlock ==
  /\ Goto("reconciler", "source_update_copy_default", "idle")
  /\ unlock("reconciler", {"default_source"})
  /\ LocksOnly

\* source.rs remove takes the registry mutex (line 184)
source_remove_lock ==
  /\ Goto("reconciler", "idle", "source_remove")
  /\ lock("reconciler", "sources")
  /\ LocksOnly

\* source_remove_unlock that needs the connection mutex before it sends
source_remove_unlock_connection ==
  /\ Goto("reconciler", "source_remove", "idle")
  /\ held["connection"] = Free
  /\ unlock("reconciler", {"sources"})
  /\ LocksOnly

\* remove returns, found or not; the send was made with the mutex held
\* (lines 186-190)
source_remove_unlock ==
  /\ Goto("reconciler", "source_remove", "idle")
  /\ unlock("reconciler", {"sources"})
  /\ LocksOnly

\* source_output.rs add, update and remove each take the registry mutex once
\* (lines 121, 138-149, 155-162)
output_lock(fn) ==
  /\ Goto("reconciler", "idle", fn)
  /\ lock("reconciler", "source_outputs")
  /\ LocksOnly

output_unlock(fn) ==
  /\ Goto("reconciler", fn, "idle")
  /\ unlock("reconciler", {"source_outputs"})
  /\ LocksOnly

OutputFns == {"output_add", "output_update", "output_remove"}

\* The thread that writes the tracker
tracker_lock ==
  /\ Goto("tracker", "idle", "set_default")
  /\ lock("tracker", "default_source")
  /\ LocksOnly

tracker_unlock ==
  /\ Goto("tracker", "set_default", "idle")
  /\ unlock("tracker", {"default_source"})
  /\ LocksOnly

\* Every command starts with lock!(self.connection) (source.rs lines 54, 61,
\* 82; source_output.rs lines 47, 68)
CommandFns == {"set_default_source", "set_source_volume", "set_source_muted",
               "set_output_volume", "set_output_muted"}

command_lock(t, fn) ==
  /\ Goto(t, "idle", fn)
  /\ lock(t, "connection")
  /\ LocksOnly

\* The connection is not Connected: the if-let body is skipped
command_skip(t, fn) ==
  /\ connection # "Connected"
  /\ Goto(t, fn, "idle")
  /\ unlock(t, {"connection"})
  /\ LocksOnly

\* set_default_source: lock!(context) under the connection (line 55)
set_default_source_lock_context(t) ==
  /\ connection = "Connected"
  /\ Goto(t, "set_default_source", "set_default_source_context")
  /\ lock(t, "context")
  /\ LocksOnly

set_default_source_unlock(t) ==
  /\ Goto(t, "set_default_source_context", "idle")
  /\ unlock(t, {"context", "connection"})
  /\ LocksOnly

\* set_source_volume / set_output_volume: the registry is searched under its
\* mutex, with the connection held (source.rs lines 62-74, source_output.rs
\* lines 48-60)
set_volume_lock_registry(t, fn, registry) ==
  /\ connection = "Connected"
  /\ Goto(t, fn, fn \o "_find")
  /\ lock(t, registry)
  /\ LocksOnly

\* End of the let-else: the registry guard is dropped, found or not
set_volume_unlock_registry(t, fn, registry) ==
  /\ Goto(t, fn \o "_find", fn \o "_send")
  /\ unlock(t, {registry})
  /\ LocksOnly

\* The command returns, after the introspector call or at the early return
set_volume_unlock(t, fn) ==
  /\ Goto(t, fn \o "_send", "idle")
  /\ unlock(t, {"connection"})
  /\ LocksOnly

\* set_source_muted / set_output_muted: the introspector call under the
\* connection (source.rs lines 82-84, source_output.rs lines 68-70)
set_muted_unlock(t, fn) ==
  /\ connection = "Connected"
  /\ Goto(t, fn, "idle")
  /\ unlock(t, {"connection"})
  /\ LocksOnly

\* The session changes under the connection mutex
session_change ==
  /\ held["connection"] = Free
  /\ connect \/ disconnect

\* The steps of the reconciler thread
ReconcilerLocks ==
  \/ on_event_lock
  \/ on_event_unlock
  \/ source_add_lock
  \/ source_add_unlock
  \/ source_update_lock
  \/ source_update_missing
  \/ source_update_active
  \/ source_update_inactive
  \/ source_update_lock_default
  \/ source_update_unlock
  \/ source_update_copy_lock
  \/ source_update_copy_unlock
  \/ source_remove_lock
  \/ source_remove_unlock
  \/ \E fn \in OutputFns : output_lock(fn)
  \/ \E fn \in OutputFns : output_unlock(fn)

\* The steps of the thread that writes the tracker
TrackerLocks == tracker_lock \/ tracker_unlock

\* The steps of a thread that calls the commands
CommandLocks(t) ==
  \/ \E fn \in CommandFns : command_lock(t, fn)
  \/ \E fn \in CommandFns : command_skip(t, fn)
  \/ set_default_source_lock_context(t)
  \/ set_default_source_unlock(t)
  \/ set_volume_lock_registry(t, "set_source_volume", "sources")
  \/ set_volume_unlock_registry(t, "set_source_volume", "sources")
  \/ set_volume_unlock(t, "set_source_volume")
  \/ set_volume_lock_registry(t, "set_output_volume", "source_outputs")
  \/ set_volume_unlock_registry(t, "set_output_volume", "source_outputs")
  \/ set_volume_unlock(t, "set_output_volume")
  \/ set_muted_unlock(t, "set_source_muted")
  \/ set_muted_unlock(t, "set_output_muted")

\* The steps of thread t
ThreadLocks(t) ==
  CASE t = "reconciler" -> ReconcilerLocks
    [] t = "tracker"    -> TrackerLocks
    [] OTHER            -> CommandLocks(t)

NextLocks ==
  \/ ReconcilerLocks
  \/ TrackerLocks
  \/ \E t \in UiThreads : CommandLocks(t)
  \/ session_change

\* The reconciler, the tracker's writer and the callers of the commands, as
\* far as the mutexes go
SpecLocks == Init /\ [][NextLocks]_vars

\* ------------------------------------------------------------------ claims
Registry(kind) == IF kind = "source" THEN sources ELSE source_outputs

Count(vec, index) == Cardinality({p \in 1..Len(vec) : vec[p].index = index})

UniqueIndex(vec) == \A i \in Indices : Count(vec, i) <= 1

LastEvent == tx[Len(tx)]

\* C1: in every reachable state, each registry (sources and source-outputs)
\* holds at most one record with any given index.
C1_AtMostOneRecordPerIndex ==
  /\ UniqueIndex(sources)
  /\ UniqueIndex(source_outputs)

\* C2: when the completion of a New(i) fetch that returned an item has run, the
\* registry holds exactly one record with index i, and the step published
\* exactly one Add event, carrying a record equal to the stored one.
C2_NewAddsExactlyOne ==
  [][(last'.op = "add" /\ last'.res = "item") =>
       LET reg == IF last'.kind = "source" THEN sources' ELSE source_outputs'
           pos == position(reg, last'.i)
       IN  /\ Count(reg, last'.i) = 1
           /\ tx' = Append(tx, IF last'.kind = "source"
                                 THEN AddSource(reg[pos])
                                 ELSE AddOutput(reg[pos]))]_vars

\* C3: when the completion of a Changed(i) fetch on a source has finished and
\* the tracker holds the name of the fetched record, the registry's record at
\* index i and the record of the published UpdateSource both have active = TRUE,
\* also when another thread wrote the tracker while the completion ran.
C3_DefaultImpliesActive ==
  (last.op = "update_send" /\ default_source = Some(LastEvent.source.name)) =>
    /\ LastEvent.source.active
    /\ sources[position(sources, last.i)].active

\* C4: a Changed(i) completion that carries an item while index i is not in the
\* registry leaves both registries unchanged, publishes no event and logs an
\* error, for sources and for source-outputs.
C4_UntrackedChangedIsDropped ==
  [][(/\ last'.op = "update"
      /\ last'.res = "item"
      /\ position(Registry(last'.kind), last'.i) = 0) =>
       /\ sources' = sources
       /\ source_outputs' = source_outputs
       /\ tx' = tx
       /\ rx' = rx
       /\ upd' = Idle
       /\ last'.err]_vars

C4_Witness ==
  /\ last.kind = "source"
  /\ last.op = "update"
  /\ last.res = "item"
  /\ ~last.hit
  /\ last.err
  /\ sources # <<>>

\* C5: Removed(i) with no record of index i in the registry changes neither the
\* registry's contents nor its order and publishes no event.
C5_RemovedAbsentIsNoOp ==
  [][(last'.op = "remove" /\ position(Registry(last'.kind), last'.i) = 0) =>
       /\ sources' = sources
       /\ source_outputs' = source_outputs
       /\ tx' = tx
       /\ rx' = rx]_vars

C5_Witness ==
  /\ last.kind = "output"
  /\ last.op = "remove"
  /\ ~last.hit
  /\ source_outputs # <<>>

\* C6: from any registry state, Removed(i) applied twice in a row leaves the
\* same registry and the same published events as Removed(i) applied once.
C6_RemovedIdempotent ==
  \A i \in Indices :
    /\ LET once  == source_remove(i, sources, Chan)
           twice == source_remove(i, once.reg, once.chan)
       IN  twice.reg = once.reg /\ twice.chan.tx = once.chan.tx
    /\ LET once  == output_remove(i, source_outputs, Chan)
           twice == output_remove(i, once.reg, once.chan)
       IN  twice.reg = once.reg /\ twice.chan.tx = once.chan.tx

\* C7: a source the server reports as Running keeps active = TRUE through the
\* Changed path, in the registry copy and in the broadcast copy, whatever the
\* tracker holds.
C7_RunningNeverDowngraded ==
  [][/\ (/\ last'.kind = "source"
         /\ last'.op = "update"
         /\ upd' # Idle
         /\ upd'[1].state = "Running") =>
          sources'[position(sources', upd'[1].index)].active
     /\ (/\ last'.op = "update_send"
         /\ upd # Idle
         /\ upd[1].state = "Running") =>
          /\ Len(tx') = Len(tx) + 1
          /\ tx'[Len(tx')].type = "UpdateSource"
          /\ tx'[Len(tx')].source.active]_vars

C7_Witness ==
  /\ last.op = "update_send"
  /\ default_source # NoName
  /\ default_source # Some(LastEvent.source.name)
  /\ LastEvent.source.active
  /\ sources[position(sources, last.i)].active

\* C8: from an empty source registry with one subscribed consumer, New(3)
\* fetching {index 3, name "alsa_input.0", muted false}, then Changed(3)
\* fetching the same with muted true, then Removed(3) give in turn: one record
\* at index 3 and AddSource with it; that record muted and UpdateSource with
\* muted = TRUE; an empty registry and RemoveSource("alsa_input.0"); nothing else.
C8_Scenario ==
  [][\A st \in SourceStates :
       LET r0  == [index |-> 3, name |-> Some("alsa_input.0"),
                   description |-> Some("Mic"), mute |-> FALSE,
                   volume |-> "vol", state |-> st]
           r1  == [r0 EXCEPT !.mute = TRUE]
           add == AddSource(SourceFrom(r0))
           c   == "c1"
           Ready == rx[c].open /\ rx[c].buf = <<>>
       IN
       /\ (/\ sources = <<>> /\ tx = <<>> /\ Ready
           /\ source_add_done(Fetch("source", "New", 3), Item(r0))) =>
            /\ sources' = <<SourceFrom(r0)>>
            /\ tx' = <<add>>
            /\ rx'[c].buf = <<add>>
       /\ (/\ sources = <<SourceFrom(r0)>> /\ tx = <<add>>
           /\ source_update_begin(Fetch("source", "Changed", 3), Item(r1))) =>
            /\ Len(sources') = 1
            /\ sources'[1].index = 3
            /\ sources'[1].name = "alsa_input.0"
            /\ sources'[1].muted
            /\ tx' = tx
       /\ (/\ upd = Item(r1) /\ tx = <<add>> /\ Ready
           /\ source_update_send) =>
            /\ sources' = sources
            /\ Len(tx') = 2
            /\ tx'[1] = add
            /\ tx'[2].type = "UpdateSource"
            /\ tx'[2].source.index = 3
            /\ tx'[2].source.name = "alsa_input.0"
            /\ tx'[2].source.muted
            /\ rx'[c].buf = <<tx'[2]>>
       /\ (/\ Len(sources) = 1 /\ sources[1].index = 3
           /\ sources[1].name = "alsa_input.0" /\ sources[1].muted
           /\ Len(tx) = 2 /\ tx[1] = add /\ tx[2].type = "UpdateSource" /\ Ready
           /\ source_on_event_removed(3)) =>
            /\ sources' = <<>>
            /\ tx' = Append(tx, RemoveSource("alsa_input.0"))
            /\ rx'[c].buf = <<RemoveSource("alsa_input.0")>>]_vars

C8_Witness ==
  /\ last.op = "remove"
  /\ sources = <<>>
  /\ Len(tx) = 3
  /\ tx[1].type = "AddSource" /\ tx[1].source.index = 3 /\ ~tx[1].source.muted
  /\ tx[2].type = "UpdateSource" /\ tx[2].source.index = 3 /\ tx[2].source.muted
  /\ tx[3] = RemoveSource("alsa_input.0")
  /\ rx["c1"].open
  /\ rx["c1"].buf = <<tx[3]>>

\* vec2 is vec with the record at pos replaced by rec
Replaced(vec, vec2, pos, rec) ==
  /\ pos \in 1..Len(vec)
  /\ vec2 = [vec EXCEPT ![pos] = rec]

\* C9: every step publishes at most one event; an Add event goes with exactly
\* one append, a Remove event with exactly one deletion, an Update event with
\* exactly one in-place replacement (for sources the replacement is committed
\* by update's registry block and its one event follows before anything else is
\* published); a step that commits nothing, and in particular one that ends in
\* a missing item, an untracked update or an absent removal, publishes nothing.
C9_OneEventPerCommit ==
  [][/\ \/ tx' = tx
        \/ Len(tx') = Len(tx) + 1 /\ SubSeq(tx', 1, Len(tx)) = tx
     /\ Len(tx') = Len(tx) + 1 =>
          LET e == tx'[Len(tx')] IN
          CASE e.type = "AddSource" ->
                 /\ sources' = Append(sources, e.source)
                 /\ source_outputs' = source_outputs
                 /\ upd = Idle /\ upd' = Idle
            [] e.type = "UpdateSource" ->
                 /\ upd # Idle /\ upd' = Idle
                 /\ e.source.index = upd[1].index
                 /\ sources' = sources
                 /\ source_outputs' = source_outputs
            [] e.type = "RemoveSource" ->
                 /\ \E pos \in 1..Len(sources) :
                      /\ sources[pos].name = e.name
                      /\ sources' = vec_remove(sources, pos)
                 /\ source_outputs' = source_outputs
                 /\ upd = Idle /\ upd' = Idle
            [] e.type = "AddOutput" ->
                 /\ source_outputs' = Append(source_outputs, e.output)
                 /\ sources' = sources
                 /\ upd = Idle /\ upd' = Idle
            [] e.type = "UpdateOutput" ->
                 /\ \E pos \in 1..Len(source_outputs) :
                      /\ source_outputs[pos].index = e.output.index
                      /\ Replaced(source_outputs, source_outputs', pos, e.output)
                 /\ sources' = sources
                 /\ upd = Idle /\ upd' = Idle
            [] e.type = "RemoveOutput" ->
                 /\ \E pos \in 1..Len(source_outputs) :
                      /\ source_outputs[pos].index = e.index
                      /\ source_outputs' = vec_remove(source_outputs, pos)
                 /\ sources' = sources
                 /\ upd = Idle /\ upd' = Idle
     /\ tx' = tx =>
          \/ /\ sources' = sources
             /\ source_outputs' = source_outputs
             /\ upd' = upd
          \/ /\ upd = Idle /\ upd' # Idle
             /\ source_outputs' = source_outputs
             /\ \E pos \in 1..Len(sources) :
                  /\ sources[pos].index = upd'[1].index
                  /\ Replaced(sources, sources', pos, sources'[pos])
     /\ (\/ last'.res = "end"
         \/ last'.err
         \/ last'.op = "remove" /\ position(Registry(last'.kind), last'.i) = 0) =>
          /\ tx' = tx
          /\ sources' = sources
          /\ source_outputs' = source_outputs
          /\ upd' = upd]_vars

C9_Witness ==
  /\ last.kind = "output"
  /\ last.op = "remove"
  /\ last.hit
  /\ source_outputs = <<>>
  /\ Len(tx) = 3
  /\ tx[1].type = "AddOutput"
  /\ tx[2].type = "UpdateOutput"
  /\ tx[3].type = "RemoveOutput"

\* A consumer that cannot take the next event: not subscribed, or buffer full
Misses(c) == ~rx[c].open \/ Len(rx[c].buf) >= Capacity

\* No reconciler step waits for a consumer: a fetch completion can run whenever
\* the reconciler is free, and a started update can always send
NeverBlocked ==
  /\ upd # Idle => ENABLED source_update_send
  /\ upd = Idle =>
       \A f \in BagToSet(fetches) : \A info \in SourceResults(f) :
         /\ (f.kind = "source" /\ f.op = "New") => ENABLED source_add_done(f, info)
         /\ (f.kind = "source" /\ f.op = "Changed") =>
              ENABLED source_update_begin(f, info)

IndicesOf(vec) == {vec[p].index : p \in 1..Len(vec)}

\* Every notification has been handled and every fetch it issued has completed
Quiescent == fetches = EmptyBag /\ upd = Idle

\* C11: once every notification has been delivered and every issued fetch has
\* completed, in whatever order, each registry holds exactly the indices that
\* are live on the server (and keeps them while the server does not change).
C11_ConvergesWhenQuiescent ==
  Quiescent =>
    /\ IndicesOf(sources) = live["source"]
    /\ IndicesOf(source_outputs) = live["output"]

\* C14: when Changed(i) on a tracked source has completed, the record written
\* to the registry and the record carried by UpdateSource are equal in every
\* field, active included, also when the tracker was written between update's
\* two reads of it.
C14_RegistryCopyEqualsBroadcastCopy ==
  last.op = "update_send" =>
    sources[position(sources, last.i)] = LastEvent.source

\* C16: a New or Changed fetch that completes with no item changes nothing,
\* for sources and for source outputs: both registries stay as they were, no
\* event is published and no error is logged.
C16_EndOfListIsSilent ==
  [][last'.res = "end" =>
       /\ last'.op \in {"add", "update"}
       /\ sources' = sources
       /\ source_outputs' = source_outputs
       /\ tx' = tx
       /\ rx' = rx
       /\ upd' = Idle
       /\ ~last'.err]_vars

\* A New fetch for a source output completed with no item while a source is
\* in the registry and its AddSource is on the channel
C16_Witness ==
  /\ last.kind = "output"
  /\ last.op = "add"
  /\ last.res = "end"
  /\ sources # <<>>
  /\ tx # <<>>

\* vec2 is vec without its first record that has the index; the records
\* before and after it keep their places
FirstRemoved(vec, vec2, index) ==
  \E p \in 1..Len(vec) :
    /\ vec[p].index = index
    /\ \A q \in 1..(p - 1) : vec[q].index # index
    /\ Len(vec2) = Len(vec) - 1
    /\ \A q \in 1..Len(vec2) : vec2[q] = IF q < p THEN vec[q] ELSE vec[q + 1]

\* The name (sources) or index (source outputs) of the first record of vec
\* that has the index
FirstWith(vec, index) ==
  vec[CHOOSE p \in 1..Len(vec) :
        /\ vec[p].index = index
        /\ \A q \in 1..(p - 1) : vec[q].index # index]

\* C17: Removed(i) handled while a record with index i is in the registry
\* deletes exactly the first such record, leaves every other record and the
\* order unchanged, and publishes exactly one event: RemoveSource with the
\* removed record's name for a source, RemoveOutput with its index for a
\* source output.
C17_RemovedDeletesFirstMatch ==
  [][last'.op = "remove" /\ last'.hit =>
       IF last'.kind = "source"
         THEN /\ FirstRemoved(sources, sources', last'.i)
              /\ source_outputs' = source_outputs
              /\ tx' = Append(tx, RemoveSource(FirstWith(sources, last'.i).name))
         ELSE /\ FirstRemoved(source_outputs, source_outputs', last'.i)
              /\ sources' = sources
              /\ tx' = Append(tx, RemoveOutput(FirstWith(source_outputs, last'.i).index))]_vars

\* Removed(i) took the first of two source records with index i: the second
\* one is still in the registry
C17_Witness ==
  /\ last.kind = "source"
  /\ last.op = "remove"
  /\ last.hit
  /\ last.i \in IndicesOf(sources)
  /\ LastEvent.type = "RemoveSource"

\* The tracker names the record
IsDefault(s, dflt) == dflt = Some(s.name)

\* C18 as stated: every source record in the registry has active true iff its
\* name equals the tracker's current name or the server reported it running
\* when it was fetched.  Stated where the fetched state is at hand: on the
\* record New inserts, on the record Changed writes, and, for the records
\* present when the tracker changes, on those the old tracker did not name
\* (their active flag is then the running report).
C18_ActiveIffDefaultOrRunning ==
  [][/\ \A f \in BagToSet(fetches) : \A info \in SourceInfos(f.i) :
          source_add_done(f, Item(info)) =>
            LET s == sources'[Len(sources')] IN
            s.active <=> (IsDefault(s, default_source') \/ info.state = "Running")
     /\ \A f \in BagToSet(fetches) : \A info \in SourceInfos(f.i) :
          source_update_begin(f, Item(info)) /\ position(sources, f.i) # 0 =>
            LET s == sources'[position(sources, f.i)] IN
            s.active <=> (IsDefault(s, default_source') \/ info.state = "Running")
     /\ \A v \in DefaultNames :
          set_default(v) =>
            \A p \in 1..Len(sources') :
              ~IsDefault(sources[p], default_source) =>
                (sources'[p].active <=> (IsDefault(sources'[p], v) \/ sources[p].active))]_vars

\* C18, amended: the record New inserts has active true iff the server
\* reported it running; the record Changed writes has active true iff the
\* server reported it running or its name equals the tracker's name read in
\* update's registry block; a write to the tracker changes no record, so a
\* record follows the tracker only at its next Changed.
C18_ActiveAsWritten ==
  [][/\ \A f \in BagToSet(fetches) : \A info \in SourceInfos(f.i) :
          source_add_done(f, Item(info)) =>
            (sources'[Len(sources')].active <=> info.state = "Running")
     /\ \A f \in BagToSet(fetches) : \A info \in SourceInfos(f.i) :
          source_update_begin(f, Item(info)) /\ position(sources, f.i) # 0 =>
            LET s == sources'[position(sources, f.i)] IN
            s.active <=> (IsDefault(s, default_source) \/ info.state = "Running")
     /\ \A v \in DefaultNames :
          set_default(v) => sources' = sources]_vars

\* New inserted a record that the tracker names and the server reported as
\* not running: its active flag is false
C18_Witness ==
  /\ last.kind = "source"
  /\ last.op = "add"
  /\ last.res = "item"
  /\ IsDefault(sources[Len(sources)], default_source)
  /\ ~sources[Len(sources)].active

\* C20: when an event is published the registry already holds the change it
\* describes, so a consumer that reads the registry on receiving it sees that
\* change: the record an Add or Update carries is in the registry, and the
\* record a Remove names has been taken out.
C20_RegistryReflectsPublishedEvent ==
  [][tx' # tx =>
       LET e == tx'[Len(tx')] IN
       CASE e.type \in {"AddSource", "UpdateSource"} ->
              \E p \in 1..Len(sources') : sources'[p] = e.source
         [] e.type \in {"AddOutput", "UpdateOutput"} ->
              \E p \in 1..Len(source_outputs') : source_outputs'[p] = e.output
         [] e.type = "RemoveSource" ->
              \E p \in 1..Len(sources) :
                /\ sources[p].name = e.name
                /\ sources' = vec_remove(sources, p)
         [] e.type = "RemoveOutput" ->
              \E p \in 1..Len(source_outputs) :
                /\ source_outputs[p].index = e.index
                /\ source_outputs' = vec_remove(source_outputs, p)]_vars

\* C12: no command of the control surface (set_default_source,
\* set_source_volume, set_source_muted, set_output_volume, set_output_muted)
\* changes either registry or publishes an event, whatever the connection
\* state; a record's volume and mute change only through the reconciler.
C12_CommandsOnlySendOutward ==
  [][Commands =>
       /\ sources' = sources
       /\ source_outputs' = source_outputs
       /\ tx' = tx
       /\ rx' = rx]_vars

\* A mute command for a tracked source has been sent, and the source's record
\* still carries the mute flag it was fetched with
C12_Witness ==
  /\ cmd # <<>>
  /\ cmd[1].call = "set_source_mute_by_name"
  /\ tx # <<>>
  /\ \E p \in 1..Len(sources) :
       /\ sources[p].name = cmd[1].name
       /\ sources[p].muted # cmd[1].mute

Connected == connection = "Connected"

\* C13: a command sends nothing when no session is connected; a set-volume
\* command (set_source_volume by name, set_output_volume by index) sends
\* nothing when no record with that name or index is in the registry; the
\* set-mute and set-default commands are sent whenever a session is connected,
\* whether or not the entity is in the registry.  Stated on every state: what
\* a call made in it would send.
C13_WhenCommandsAreSent ==
  /\ ~Connected => ~ENABLED (Commands /\ cmd' # cmd)
  /\ \A name \in CommandNames : \A volume \in Percents :
       (\A p \in 1..Len(sources) : sources[p].name # name) =>
         ~ENABLED (set_source_volume(name, volume) /\ cmd' # cmd)
  /\ \A i \in CommandIndices : \A volume \in Percents :
       (\A p \in 1..Len(source_outputs) : source_outputs[p].index # i) =>
         ~ENABLED (set_output_volume(i, volume) /\ cmd' # cmd)
  /\ \A name \in CommandNames :
       Connected =>
         ENABLED (/\ set_default_source(name)
                  /\ cmd' = Some(context_set_default_source(name)))
  /\ \A name \in CommandNames : \A muted \in BOOLEAN :
       Connected =>
         ENABLED (/\ set_source_muted(name, muted)
                  /\ cmd' = Some(set_source_mute_by_name(name, muted)))
  /\ \A i \in CommandIndices : \A muted \in BOOLEAN :
       Connected =>
         ENABLED (/\ set_output_muted(i, muted)
                  /\ cmd' = Some(set_source_output_mute(i, muted)))

\* A mute command was sent for a source name that no record of a non-empty
\* registry has
C13_Witness ==
  /\ Connected
  /\ cmd # <<>>
  /\ cmd[1].call = "set_source_mute_by_name"
  /\ sources # <<>>
  /\ \A p \in 1..Len(sources) : sources[p].name # cmd[1].name

\* The mutex thread t has to take before its next step, Free if none
Wants(t) ==
  CASE pc[t] \in {"source_update_want_default", "source_update_copy"} -> "default_source"
    [] pc[t] = "set_default_source" /\ Connected -> "context"
    [] pc[t] = "set_source_volume" /\ Connected -> "sources"
    [] pc[t] = "set_output_volume" /\ Connected -> "source_outputs"
    [] OTHER -> Free

\* C15: handling Changed for a source, the reconciler never holds the registry
\* mutex while it acquires or waits for the tracker mutex, and never holds the
\* tracker mutex while it acquires the registry mutex.
C15_RegistryAndTrackerLockedApart ==
  /\ ~(held["sources"] = "reconciler" /\ Wants("reconciler") = "default_source")
  /\ ~(held["sources"] = "reconciler" /\ held["default_source"] = "reconciler")
  /\ ~(held["default_source"] = "reconciler" /\ Wants("reconciler") = "sources")

\* Thread t is inside an operation
Busy(t) == pc[t] # "idle"

\* C19: no interleaving of the reconciler (add, update, remove) with the
\* callers of the commands and the tracker's writer deadlocks: whenever
\* threads are inside operations, one of them can take its next step, and a
\* thread that cannot is waiting for a mutex another such thread holds.
C19_NoDeadlock ==
  /\ (\E t \in Threads : Busy(t)) =>
       \E t \in Threads : Busy(t) /\ ENABLED ThreadLocks(t)
  /\ \A t \in Threads :
       Busy(t) /\ ~ENABLED ThreadLocks(t) =>
         /\ Wants(t) # Free
         /\ held[Wants(t)] \in Threads \ {t}
         /\ Busy(held[Wants(t)])

\* A caller of set_source_volume holds the connection and waits for the
\* registry, which update holds while it waits for the tracker, which the
\* tracker's writer holds
C19_Witness ==
  /\ Connected
  /\ \E t \in UiThreads : pc[t] = "set_source_volume" /\ held["connection"] = t
  /\ held["sources"] = "reconciler"
  /\ pc["reconciler"] = "source_update_want_default"
  /\ held["default_source"] = "tracker"

====
